---- MODULE Spec2Model ----
(***************************************************************************)
(* A model of visualkeras.layered.layered_view (src/visualkeras/layered.py) *)
(* as a state machine: the layout loop (one step per layer), the canvas     *)
(* allocation and centering pass, the drawing pass, the grouped shape-label *)
(* pass (one step per layer) and the legend.                                *)
(*                                                                          *)
(* Lengths are exact rationals held as integers in units of 1/Unit pixel:   *)
(* the code divides by 3 (de = x / 3) and by 2 (de / 2, y_off), and the     *)
(* scale factors are floats given here in tenths (scale_z = 0.1 is 1).      *)
(* Python indices are 0-based, TLA+ sequences 1-based: boxes[k] of the code *)
(* is boxes[k + 1] here, and `index`, `i`, `spacing_layer_index` keep the   *)
(* code's 0-based values.  The batch dimension None of a shape is 0.        *)
(*                                                                          *)
(* Not modelled: the draw_shapes range check (lines 50-51), the per-box     *)
(* label modes draw_shapes 1 and 2 (lines 301-333), fonts, the background   *)
(* and the file written (lines 384-385).  Box.draw, ColorWheel and          *)
(* self_multiply live in utils, SpacingDummyLayer in layer_utils.           *)
(***************************************************************************)
EXTENDS Integers, Sequences, FiniteSets, TLC

VARIABLES
    layers,               \* model.layers: the layer descriptors
    cfg,                  \* the keyword arguments of layered_view
    color_map,            \* the caller's color_map, mutated at line 143
    pc,                   \* position in layered_view
    err,                  \* the exception raised, "" when none
    index,                \* loop variable of the layer loops (0-based)
    xyz,                  \* locals x, y, z of the layout loop
    boxes,                \* list of Box
    layer_y,              \* per-box footprint heights
    color_wheel,          \* ColorWheel cache: the types it has coloured, in order
    current_z,            \* horizontal cursor
    x_off,                \* -1 until the first box sets it
    layer_types,          \* distinct visible types, first appearance order
    img_height,           \* running maximum footprint height, then + padding_vertical
    max_right,            \* running maximum right extent
    img,                  \* the canvas: <<width, height>> in whole pixels
    events,               \* draw calls issued on the canvas, in order
    i,                    \* label pass: index of the last box counted
    spacing_layer_index,  \* label pass: box index before the open segment
    texts,                \* label pass: text draw calls, in order
    patches               \* legend patches, in order

vars == <<layers, cfg, color_map, pc, err, index, xyz, boxes, layer_y, color_wheel,
          current_z, x_off, layer_types, img_height, max_right, img, events, i,
          spacing_layer_index, texts, patches>>

(***************************************************************************)
(* Bounds of the model and constants of the program.                        *)
(***************************************************************************)
MaxDim == 3            \* raw dimensions range over 1..MaxDim
MaxColourLayers == 4   \* layers per model under SpecColour
MaxLayoutLayers == 3   \* layers per model under SpecLayout
MaxDrawLayers == 4     \* layers per model under SpecDraw
MaxLabelLayers == 5    \* layers per model under SpecLabel

Unit == 60             \* sub-pixel units per pixel: 3 (x / 3) * 2 (/ 2) * 10 (tenths)
DefaultPadding == 10
DefaultPaddingLeft == 0
DefaultPaddingVertical == 10
DefaultSpacing == 10
DefaultShadeStep == 10
DefaultMinZ == 20
DefaultMinXY == 20
DefaultMaxZ == 400
DefaultMaxXY == 2000
DefaultScaleZ == 1     \* 0.1, in tenths
DefaultScaleXY == 40   \* 4, in tenths
TextOffset == 20       \* text_y = box.y2 + 20

SpacingDummyLayer == "SpacingDummyLayer"
Types == {"Conv2D", "Dense"}
Absent == "<absent>"                \* a key a dict does not hold
WheelColors == <<"#ffd166", "#ef476f", "#118ab2">>

Px(n) == n * Unit
Min2(a, b) == IF a <= b THEN a ELSE b
Max2(a, b) == IF a >= b THEN a ELSE b
\* int(ceil(v)) of a length v held in sub-pixel units, in whole pixels
CeilPx(v) == -((-v) \div Unit)

RECURSIVE SeqProduct(_)
SeqProduct(s) == IF Len(s) = 0 THEN 1 ELSE Head(s) * SeqProduct(Tail(s))
\* self_multiply(shape[3:]): the product of the trailing dimensions
SelfMultiply(dims) == IF Len(dims) = 0 THEN 0 ELSE SeqProduct(dims)

\* dim * scale, scale in tenths, result in sub-pixel units
Scaled(dim, scale) == dim * scale * (Unit \div 10)

(***************************************************************************)
(* Shape resolution, lines 92-122.                                          *)
(***************************************************************************)
\* faulty variant of Clamp: the cap at hi forgotten
ClampNoCap(v, lo, hi) == Max2(v, lo)
\* min(max(v, lo), hi)
Clamp(v, lo, hi) == Min2(Max2(v, lo), hi)

\* lines 96-102: a tuple, or a list holding exactly one tuple
ShapeSupported(os) == os.kind = "tuple" \/ (os.kind = "list" /\ Len(os.val) = 1)

Size(x, y, z) == [err |-> "", x |-> x, y |-> y, z |-> z]
Raise(e, x, y, z) == [err |-> e, x |-> x, y |-> y, z |-> z]

\* line 111: z = min(max(z), max_z).  max() of one int argument raises
\* TypeError ('int' object is not iterable) before min() is applied.
Rank3Depth(x, y, z, max_z) == Raise("TypeError", x, y, z)

\* faulty variant of OneDim: the x and y orientations exchanged
OneDimSwapped(d, c, x, y, z) ==
    IF c.one_dim_orientation = "x"
    THEN Size(x, Clamp(Scaled(d, c.scale_xy), y, Px(c.max_xy)), z)
    ELSE IF c.one_dim_orientation = "y"
    THEN Size(Clamp(Scaled(d, c.scale_xy), x, Px(c.max_xy)), y, z)
    ELSE IF c.one_dim_orientation = "z"
    THEN Size(x, y, Clamp(Scaled(d, c.scale_z), z, Px(c.max_z)))
    ELSE Raise("ValueError", x, y, z)
\* lines 112-120: the rank-2 branch
OneDim(d, c, x, y, z) ==
    IF c.one_dim_orientation = "x"
    THEN Size(Clamp(Scaled(d, c.scale_xy), x, Px(c.max_xy)), y, z)
    ELSE IF c.one_dim_orientation = "y"
    THEN Size(x, Clamp(Scaled(d, c.scale_xy), y, Px(c.max_xy)), z)
    ELSE IF c.one_dim_orientation = "z"
    THEN Size(x, y, Clamp(Scaled(d, c.scale_z), z, Px(c.max_z)))
    ELSE Raise("ValueError", x, y, z)

\* lines 92-122: (x, y, z) of a layer's output shape, or the exception raised
Resolve(os, c) ==
    LET x0 == Px(c.min_xy)
        y0 == Px(c.min_xy)
        z0 == Px(c.min_z)
    IN  IF ~ShapeSupported(os) THEN Raise("RuntimeError: not supported tensor shape", x0, y0, z0)
        ELSE LET shape == os.val[1]
                 n == Len(shape)
             IN  IF n >= 4
                 THEN Size(Clamp(Scaled(shape[2], c.scale_xy), x0, Px(c.max_xy)),
                           Clamp(Scaled(shape[3], c.scale_xy), y0, Px(c.max_xy)),
                           Clamp(Scaled(SelfMultiply(SubSeq(shape, 4, n)), c.scale_z),
                                 z0, Px(c.max_z)))
                 ELSE IF n = 3
                 THEN Rank3Depth(Clamp(Scaled(shape[2], c.scale_xy), x0, Px(c.max_xy)),
                                 Clamp(Scaled(shape[3], c.scale_xy), y0, Px(c.max_xy)),
                                 z0, Px(c.max_z))
                 ELSE IF n = 2
                 THEN OneDim(shape[2], c, x0, y0, z0)
                 ELSE Raise("RuntimeError: not supported tensor shape", x0, y0, z0)

(***************************************************************************)
(* Colours, lines 141-143 and 367-368.                                      *)
(***************************************************************************)
InSeq(s, t) == \E k \in 1..Len(s) : s[k] = t
PosIn(s, t) == CHOOSE k \in 1..Len(s) : s[k] = t

\* ColorWheel.get_color: a type keeps the colour it was given when first asked
WheelCache(cache, t) == IF InSeq(cache, t) THEN cache ELSE Append(cache, t)
WheelColor(cache, t) ==
    WheelColors[((PosIn(WheelCache(cache, t), t) - 1) % Len(WheelColors)) + 1]

\* color_map.get(layer_type, {}).get(key, default)
MapGet(cm, t, key, default) == IF cm[t][key] # Absent THEN cm[t][key] ELSE default

\* faulty variant of RecordColor: line 143 left out
RecordNothing(cm, t, fill, outline) == cm
\* line 143: color_map[layer_type] = {'fill': box.fill, 'outline': box.outline}
RecordColor(cm, t, fill, outline) ==
    [cm EXCEPT ![t] = [fill |-> fill, outline |-> outline]]

(***************************************************************************)
(* The layout loop, lines 75-157: one step per layer.                       *)
(***************************************************************************)
\* line 78: type(layer) in type_ignore or index in index_ignore
IsIgnored(layer, idx, c) == layer.type \in c.type_ignore \/ idx \in c.index_ignore
\* line 82
IsSpacer(layer) == layer.type = SpacingDummyLayer

\* faulty variant of NextCursor: the box depth z not added
NextCursorNoDepth(cz, z, spacing) == cz + spacing
\* line 157: current_z += z + spacing
NextCursor(cz, z, spacing) == cz + z + spacing

\* lines 124-145: the Box of a visible layer
NewBox(r, cz, c, fill, outline) ==
    LET de == IF c.draw_volume THEN r.x \div 3 ELSE 0
        x1 == cz - de \div 2
        y1 == de
    IN  [x1 |-> x1, y1 |-> y1, x2 |-> x1 + r.z, y2 |-> y1 + r.y, de |-> de,
         fill |-> fill, outline |-> outline, shade |-> c.shade_step]

LayoutStep ==
    /\ pc = "layout"
    /\ index < Len(layers)
    /\ LET layer == layers[index + 1] IN
       IF IsIgnored(layer, index, cfg)
       THEN /\ index' = index + 1
            /\ UNCHANGED <<pc, err, xyz, boxes, layer_y, color_wheel, current_z, x_off,
                           layer_types, img_height, max_right, color_map>>
       ELSE IF IsSpacer(layer)
       THEN /\ current_z' = current_z + Px(layer.spacing)
            /\ index' = index + 1
            /\ UNCHANGED <<pc, err, xyz, boxes, layer_y, color_wheel, x_off,
                           layer_types, img_height, max_right, color_map>>
       ELSE LET r == Resolve(layer.output_shape, cfg) IN
            /\ layer_types' = IF InSeq(layer_types, layer.type) THEN layer_types
                              ELSE Append(layer_types, layer.type)
            /\ xyz' = <<r.x, r.y, r.z>>
            /\ IF r.err # ""
               THEN /\ pc' = "error"
                    /\ err' = r.err
                    /\ UNCHANGED <<index, boxes, layer_y, color_wheel, current_z, x_off,
                                   img_height, max_right, color_map>>
               ELSE LET fill == MapGet(color_map, layer.type, "fill",
                                       WheelColor(color_wheel, layer.type))
                        outline == MapGet(color_map, layer.type, "outline", "black")
                        box == NewBox(r, current_z, cfg, fill, outline)
                        hh == box.y2 - (box.y1 - box.de)
                    IN  /\ x_off' = IF x_off = Px(-1) THEN box.de \div 2 ELSE x_off
                        /\ color_wheel' = WheelCache(color_wheel, layer.type)
                        /\ color_map' = RecordColor(color_map, layer.type, fill, outline)
                        /\ boxes' = Append(boxes, box)
                        /\ layer_y' = Append(layer_y, hh)
                        /\ img_height' = IF hh > img_height THEN hh ELSE img_height
                        /\ max_right' = IF box.x2 + box.de > max_right
                                        THEN box.x2 + box.de ELSE max_right
                        /\ current_z' = NextCursor(current_z, r.z, Px(cfg.spacing))
                        /\ index' = index + 1
                        /\ UNCHANGED <<pc, err>>
    /\ UNCHANGED <<layers, cfg, img, events, i, spacing_layer_index, texts, patches>>

(***************************************************************************)
(* Canvas and centering, lines 160-173.                                     *)
(***************************************************************************)
\* faulty variant of YOff: the division by 2 forgotten
YOffNoHalf(height, ly) == Px(height) - ly
\* line 168: y_off = (img.height - layer_y[i]) / 2
YOff(height, ly) == (Px(height) - ly) \div 2

GenerateImage ==
    /\ pc = "layout"
    /\ index = Len(layers)
    /\ LET img_width == max_right + x_off + Px(cfg.padding)
           height == CeilPx(img_height + Px(cfg.padding_vertical))
       IN  /\ img_height' = img_height + Px(cfg.padding_vertical)
           /\ img' = <<CeilPx(img_width), height>>
           /\ boxes' = [k \in 1..Len(boxes) |->
                          [boxes[k] EXCEPT !.y1 = @ + YOff(height, layer_y[k]),
                                           !.y2 = @ + YOff(height, layer_y[k]),
                                           !.x1 = @ + x_off,
                                           !.x2 = @ + x_off]]
    /\ pc' = "draw"
    /\ UNCHANGED <<layers, cfg, color_map, err, index, xyz, layer_y, color_wheel,
                   current_z, x_off, layer_types, max_right, events, i,
                   spacing_layer_index, texts, patches>>

(***************************************************************************)
(* Drawing, lines 177-230.  A draw call is recorded with the boxes it joins *)
(* (0-based positions in `boxes`), its coordinates and its pen.             *)
(***************************************************************************)
Line(tag, a, b, xy, pen) ==
    [op |-> "line", tag |-> tag, from |-> a, to |-> b, xy |-> xy, pen |-> pen]
\* box.draw(draw, draw_reversed)
BoxDraw(k, box, rev) ==
    [op |-> IF rev THEN "box_reversed" ELSE "box", tag |-> "box", from |-> k, to |-> k,
     xy |-> <<box.x1, box.y1, box.x2, box.y2>>, pen |-> box.outline]

\* lines 185-189: the two back connectors of the reversed diagram
BackLines(last, box, a, b) ==
    << Line("back_top", a, b,
            <<last.x2 - last.de, last.y1 - last.de, box.x1 - box.de, box.y1 - box.de>>,
            box.outline),
       Line("back_bottom", a, b,
            <<last.x2 - last.de, last.y2 - last.de, box.x1 - box.de, box.y2 - box.de>>,
            box.outline) >>
\* lines 200-205: the two front connectors of the reversed diagram
FrontLines(last, box, a, b) ==
    << Line("front_top", a, b, <<last.x1, last.y1, box.x2, box.y1>>, box.outline),
       Line("front_bottom", a, b, <<last.x1, last.y2, box.x2, box.y2>>, box.outline) >>
\* lines 215-224: the four connectors of the forward diagram
ForwardLines(last, box, a, b) ==
    << Line("back_top", a, b,
            <<last.x2 + last.de, last.y1 - last.de, box.x1 + box.de, box.y1 - box.de>>,
            box.outline),
       Line("back_bottom", a, b,
            <<last.x2 + last.de, last.y2 - last.de, box.x1 + box.de, box.y2 - box.de>>,
            box.outline),
       Line("front_bottom", a, b, <<last.x2, last.y2, box.x1, box.y2>>, box.outline),
       Line("front_top", a, b, <<last.x2, last.y1, box.x1, box.y1>>, box.outline) >>

\* faulty variant of ReversedOrder: the list not reversed
SameOrder(n) == [k \in 1..n |-> k]
\* line 195: reversed(boxes), as 1-based positions
ReversedOrder(n) == [k \in 1..n |-> n + 1 - k]
\* lines 180, 211: for box in boxes
ForwardOrder(n) == [k \in 1..n |-> k]

\* lines 180-191: the first loop of the reversed diagram, from position j of ord
RECURSIVE BackPass(_, _, _, _)
BackPass(bs, c, ord, j) ==
    IF j > Len(ord) THEN <<>>
    ELSE (IF j > 1 /\ c.draw_funnel
          THEN BackLines(bs[ord[j - 1]], bs[ord[j]], ord[j - 1] - 1, ord[j] - 1)
          ELSE <<>>)
         \o BackPass(bs, c, ord, j + 1)
\* lines 195-209: the second loop of the reversed diagram
RECURSIVE FrontPass(_, _, _, _)
FrontPass(bs, c, ord, j) ==
    IF j > Len(ord) THEN <<>>
    ELSE (IF j > 1 /\ c.draw_funnel
          THEN FrontLines(bs[ord[j - 1]], bs[ord[j]], ord[j - 1] - 1, ord[j] - 1)
          ELSE <<>>)
         \o <<BoxDraw(ord[j] - 1, bs[ord[j]], TRUE)>>
         \o FrontPass(bs, c, ord, j + 1)
\* lines 211-228: the loop of the forward diagram
RECURSIVE ForwardPass(_, _, _, _)
ForwardPass(bs, c, ord, j) ==
    IF j > Len(ord) THEN <<>>
    ELSE (IF j > 1 /\ c.draw_funnel
          THEN ForwardLines(bs[ord[j - 1]], bs[ord[j]], ord[j - 1] - 1, ord[j] - 1)
          ELSE <<>>)
         \o <<BoxDraw(ord[j] - 1, bs[ord[j]], FALSE)>>
         \o ForwardPass(bs, c, ord, j + 1)

DrawCalls(bs, c) ==
    IF c.draw_reversed
    THEN BackPass(bs, c, ForwardOrder(Len(bs)), 1)
         \o FrontPass(bs, c, ReversedOrder(Len(bs)), 1)
    ELSE ForwardPass(bs, c, ForwardOrder(Len(bs)), 1)

DrawBoxes ==
    /\ pc = "draw"
    /\ events' = DrawCalls(boxes, cfg)
    /\ pc' = IF cfg.draw_shapes = 3 /\ Len(layers) > 0 THEN "shapes" ELSE "legend"
    /\ index' = 0
    /\ i' = -1
    /\ spacing_layer_index' = -1
    /\ UNCHANGED <<layers, cfg, color_map, err, xyz, boxes, layer_y, color_wheel,
                   current_z, x_off, layer_types, img_height, max_right, img, texts,
                   patches>>

(***************************************************************************)
(* Grouped shape labels (draw_shapes == 3), lines 232-299: one step per     *)
(* layer.                                                                   *)
(***************************************************************************)
\* Python's list[k]: a negative k counts from the end
PyIndex(n, k) == IF k < 0 THEN k + n ELSE k
PyIndexOk(n, k) == PyIndex(n, k) >= 0 /\ PyIndex(n, k) < n

\* faulty variant of SegmentEmpty: < in place of <=
SegmentNegative(idx1, idx2) == idx2 - idx1 < 0
\* lines 244, 268: if idx2 - idx1 <= 0: raise RuntimeError
SegmentEmpty(idx1, idx2) == idx2 - idx1 <= 0

\* line 247: (idx2 - idx1) % 2 == 1
IsOdd(idx1, idx2) == (idx2 - idx1) % 2 = 1
\* line 271: idx2 - idx1 % 2 == 1, which Python reads as idx2 - (idx1 % 2) == 1
EndIsOdd(idx1, idx2) == idx2 - (idx1 % 2) = 1
\* lines 249, 255: idx1 + ceil((idx2 - idx1) / 2) when odd, idx1 + (idx2 - idx1) // 2 when even
MidIndex(idx1, idx2) ==
    IF IsOdd(idx1, idx2) THEN idx1 + (idx2 - idx1 + 1) \div 2
    ELSE idx1 + (idx2 - idx1) \div 2

\* lines 273, 278: box = boxes[i]
EndAnchor(idx1, idx2) == idx2

RECURSIVE DropNone(_)
DropNone(s) ==
    IF Len(s) = 0 THEN <<>>
    ELSE IF Head(s) = 0 THEN DropNone(Tail(s)) ELSE <<Head(s)>> \o DropNone(Tail(s))
\* lines 286-296: the label's lines, the last dimension on a line of its own
ShapeText(os) ==
    LET dims == IF os.kind = "tuple" THEN DropNone(os.val[1])
                ELSE IF Len(os.val) = 0 THEN <<>> ELSE DropNone(os.val[1])
        n == Len(dims)
    IN  IF n = 0 THEN [err |-> "IndexError", lines |-> <<>>]
        ELSE IF n = 1 THEN [err |-> "", lines |-> <<dims>>]
        ELSE [err |-> "", lines |-> <<SubSeq(dims, 1, n - 1), <<dims[n]>>>>]

TextAt(bs, k, extra) ==
    LET box == bs[PyIndex(Len(bs), k) + 1]
    IN  <<box.x1 + (box.x2 - box.x1) \div 2 + extra, box.y2 + Px(TextOffset)>>

StructuralError == "RuntimeError: two spacing layers in a row"

\* One iteration of the loop at line 238: the exception it raises (err), else
\* the counters it leaves and the text it draws (draw, box, xy).
LabelOutcome(layer, idx, n_layers, bs, c, i0, sli0) ==
    LET delim == IsIgnored(layer, idx, c) \/ IsSpacer(layer)
        last == idx = n_layers - 1
        mid == MidIndex(sli0, i0)
        i1 == IF delim THEN i0 ELSE i0 + 1
        sli1 == IF delim THEN i0 ELSE sli0
        anchor == IF last THEN EndAnchor(sli1, i1) ELSE mid
        extra == IF last
                 THEN (IF EndIsOdd(sli1, i1) THEN 0 ELSE Px(c.padding))
                 ELSE (IF IsOdd(sli0, i0) THEN 0 ELSE Px(c.spacing))
        out(e, draw) == [err |-> e, draw |-> draw, i |-> i1, sli |-> sli1,
                         box |-> anchor,
                         xy |-> IF draw THEN TextAt(bs, anchor, extra) ELSE <<>>]
    IN  IF delim /\ SegmentEmpty(sli0, i0) THEN out(StructuralError, FALSE)
        ELSE IF delim /\ ~PyIndexOk(Len(bs), mid) THEN out("IndexError", FALSE)
        ELSE IF last /\ SegmentEmpty(sli1, i1) THEN out(StructuralError, FALSE)
        ELSE IF last /\ ~PyIndexOk(Len(bs), anchor) THEN out("IndexError", FALSE)
        ELSE IF (delim \/ last) /\ ShapeText(layer.output_shape).err # ""
        THEN out(ShapeText(layer.output_shape).err, FALSE)
        ELSE out("", delim \/ last)

LabelStep ==
    /\ pc = "shapes"
    /\ index < Len(layers)
    /\ LET o == LabelOutcome(layers[index + 1], index, Len(layers), boxes, cfg, i,
                             spacing_layer_index)
       IN  /\ i' = o.i
           /\ spacing_layer_index' = o.sli
           /\ IF o.err # ""
              THEN /\ pc' = "error"
                   /\ err' = o.err
                   /\ UNCHANGED <<index, texts>>
              ELSE /\ texts' = IF o.draw
                               THEN Append(texts,
                                        [xy |-> o.xy, box |-> PyIndex(Len(boxes), o.box),
                                         text |-> ShapeText(layers[index + 1].output_shape).lines,
                                         at |-> index])
                               ELSE texts
                   /\ index' = index + 1
                   /\ pc' = IF index + 1 = Len(layers) THEN "legend" ELSE "shapes"
                   /\ UNCHANGED err
    /\ UNCHANGED <<layers, cfg, color_map, xyz, boxes, layer_y, color_wheel, current_z,
                   x_off, layer_types, img_height, max_right, img, events, patches>>

(***************************************************************************)
(* Legend and return, lines 336-387.                                        *)
(***************************************************************************)
\* lines 367-368: the swatch of a type
LegendPatch(cm, t) ==
    [label |-> t, fill |-> MapGet(cm, t, "fill", "#000000"),
     outline |-> MapGet(cm, t, "outline", "#000000")]

Return ==
    /\ pc = "legend"
    /\ patches' = IF cfg.legend
                  THEN [k \in 1..Len(layer_types) |-> LegendPatch(color_map, layer_types[k])]
                  ELSE patches
    /\ pc' = "done"
    /\ UNCHANGED <<layers, cfg, color_map, err, index, xyz, boxes, layer_y, color_wheel,
                   current_z, x_off, layer_types, img_height, max_right, img, events, i,
                   spacing_layer_index, texts>>

\* draw_shapes == 3
Next == LayoutStep \/ GenerateImage \/ DrawBoxes \/ LabelStep \/ Return
\* draw_shapes == 0: the label pass is never entered
NextUnlabelled == LayoutStep \/ GenerateImage \/ DrawBoxes \/ Return

(***************************************************************************)
(* Inputs.  Init is the state at line 75: the defaults of lines 66-73       *)
(* applied, the locals of lines 55-64 set.                                  *)
(***************************************************************************)
Tuple(shape) == [kind |-> "tuple", val |-> <<shape>>]
ListOf(shapes) == [kind |-> "list", val |-> shapes]
Layer(type, os) == [type |-> type, output_shape |-> os, spacing |-> 0]
\* SpacingDummyLayer(spacing): its output shape is that of a pass-through layer
Spacer(n) == [type |-> SpacingDummyLayer, output_shape |-> Tuple(<<0, 1>>), spacing |-> n]

SeqsUpTo(S, n) == UNION {[1..k -> S] : k \in 0..n}

NoEntry == [fill |-> Absent, outline |-> Absent]
EmptyMap == [t \in Types |-> NoEntry]

\* the signature's defaults, line 8-16
DefaultCfg ==
    [min_z |-> DefaultMinZ, min_xy |-> DefaultMinXY, max_z |-> DefaultMaxZ,
     max_xy |-> DefaultMaxXY, scale_z |-> DefaultScaleZ, scale_xy |-> DefaultScaleXY,
     type_ignore |-> {}, index_ignore |-> {}, one_dim_orientation |-> "z",
     draw_volume |-> TRUE, draw_reversed |-> FALSE, draw_shapes |-> 0,
     padding |-> DefaultPadding, padding_left |-> DefaultPaddingLeft,
     padding_vertical |-> DefaultPaddingVertical, spacing |-> DefaultSpacing,
     draw_funnel |-> TRUE, shade_step |-> DefaultShadeStep, legend |-> FALSE]

InitRun(ls, c, cm) ==
    /\ layers = ls
    /\ cfg = c
    /\ color_map = cm
    /\ pc = "layout"
    /\ err = ""
    /\ index = 0
    /\ xyz = <<0, 0, 0>>
    /\ boxes = <<>>
    /\ layer_y = <<>>
    /\ color_wheel = <<>>
    /\ current_z = Px(c.padding + c.padding_left)
    /\ x_off = Px(-1)
    /\ layer_types = <<>>
    /\ img_height = 0
    /\ max_right = 0
    /\ img = <<>>
    /\ events = <<>>
    /\ i = -1
    /\ spacing_layer_index = -1
    /\ texts = <<>>
    /\ patches = <<>>

\* SpecShape: one visible layer of any shape up to rank 5, under clamping
\* configurations that floor, cap, leave alone and (min > max) invert.
Dims == 1..MaxDim
ShapeTuples == UNION {{<<0>> \o s : s \in [1..k -> Dims]} : k \in 0..4}
ShapeInputs == {Tuple(s) : s \in ShapeTuples}
                  \cup {ListOf(<<s>>) : s \in {<<0, 1, 2, 3>>, <<0, 3>>}}
                  \cup {ListOf(<<<<0, 1>>, <<0, 2>>>>)}
MinXYs == {8, DefaultMinXY}
MaxXYs == {12, DefaultMaxXY}
MinZs == {2, DefaultMinZ}
MaxZs == {3, DefaultMaxZ}
ScaleXYs == {DefaultScaleXY, 50}
ScaleZs == {DefaultScaleZ, 10, 15}
Orientations == {"x", "y", "z", "w"}
ShapeCfgs ==
    {[DefaultCfg EXCEPT !.min_xy = a, !.max_xy = b, !.min_z = c, !.max_z = d,
                        !.scale_xy = e, !.scale_z = f, !.one_dim_orientation = o] :
        a \in MinXYs, b \in MaxXYs, c \in MinZs, d \in MaxZs, e \in ScaleXYs,
        f \in ScaleZs, o \in Orientations}
InitShape ==
    \E os \in ShapeInputs, c \in ShapeCfgs : InitRun(<<Layer("Conv2D", os)>>, c, EmptyMap)
SpecShape == InitShape /\ [][NextUnlabelled]_vars

\* SpecLayout: spacers of negative, zero and positive amount, boxes of
\* different sizes, a layer whose shape the loop rejects, and exclusions.
LayoutLayers ==
    {Spacer(-5), Spacer(0), Spacer(50),
     Layer("Conv2D", Tuple(<<0, 28, 28, 3>>)),
     Layer("Conv2D", Tuple(<<0, 7, 7, 300>>)),
     Layer("Dense", Tuple(<<0, 500>>)),
     Layer("Dense", Tuple(<<0, 28, 28>>))}
LayoutCfgs ==
    {[DefaultCfg EXCEPT !.type_ignore = t, !.index_ignore = x, !.draw_volume = v] :
        t \in {{}, {"Dense"}}, x \in {{}, {1}}, v \in BOOLEAN}
InitLayout ==
    \E ls \in SeqsUpTo(LayoutLayers, MaxLayoutLayers), c \in LayoutCfgs :
        InitRun(ls, c, EmptyMap)
SpecLayout == InitLayout /\ [][NextUnlabelled]_vars

\* SpecColour: every caller-supplied color_map shape (no entry, fill only,
\* outline only, both) per type, with the legend on.
ColourLayers ==
    {Spacer(50), Layer("Conv2D", Tuple(<<0, 28, 28, 3>>)), Layer("Dense", Tuple(<<0, 500>>))}
Entries ==
    {NoEntry, [fill |-> "red", outline |-> Absent], [fill |-> Absent, outline |-> "blue"],
     [fill |-> "red", outline |-> "blue"]}
ColourCfgs ==
    {[DefaultCfg EXCEPT !.type_ignore = t, !.legend = TRUE] : t \in {{}, {"Dense"}}}
InitColour ==
    \E ls \in SeqsUpTo(ColourLayers, MaxColourLayers), c \in ColourCfgs,
       cm \in [Types -> Entries] : InitRun(ls, c, cm)
SpecColour == InitColour /\ [][NextUnlabelled]_vars

\* SpecDraw: both directions, with and without funnels.
DrawLayers ==
    {Spacer(50), Layer("Conv2D", Tuple(<<0, 28, 28, 3>>)), Layer("Dense", Tuple(<<0, 500>>))}
DrawCfgs ==
    {[DefaultCfg EXCEPT !.draw_reversed = r, !.draw_funnel = f] :
        r \in BOOLEAN, f \in BOOLEAN}
InitDraw ==
    \E ls \in SeqsUpTo(DrawLayers, MaxDrawLayers), c \in DrawCfgs : InitRun(ls, c, EmptyMap)
SpecDraw == InitDraw /\ [][NextUnlabelled]_vars

\* SpecLabel: grouped shape labels over every arrangement of visible layers,
\* spacers and layers ignored by type or by index.
LabelLayers ==
    {Spacer(50), Layer("Conv2D", Tuple(<<0, 28, 28, 3>>)), Layer("Dense", Tuple(<<0, 500>>))}
LabelCfgs ==
    {[DefaultCfg EXCEPT !.draw_shapes = 3, !.type_ignore = t, !.index_ignore = x] :
        t \in {{}, {"Dense"}}, x \in {{}, {1}}}
InitLabel ==
    \E ls \in SeqsUpTo(LabelLayers, MaxLabelLayers), c \in LabelCfgs :
        InitRun(ls, c, EmptyMap)
SpecLabel == InitLabel /\ [][Next]_vars

(***************************************************************************)
(* Vocabulary of the properties.                                            *)
(***************************************************************************)
\* the shape tuple of a layer whose container is supported
ShapeOf(layer) == layer.output_shape.val[1]
Rank(layer) == IF ShapeSupported(layer.output_shape) THEN Len(ShapeOf(layer)) ELSE 0
\* layer k (1-based) is excluded, a delimiter, visible
Excluded(k) == IsIgnored(layers[k], k - 1, cfg)
Delimiter(k) == Excluded(k) \/ IsSpacer(layers[k])
Visible(k) == ~Delimiter(k)
\* positions of the visible layers among the first n, in traversal order
RECURSIVE VisiblePositions(_)
VisiblePositions(n) ==
    IF n = 0 THEN <<>>
    ELSE IF Visible(n) THEN Append(VisiblePositions(n - 1), n) ELSE VisiblePositions(n - 1)
\* layers the layout loop has completed
Processed == IF pc \in {"layout", "error"} THEN index ELSE Len(layers)
LaidOut == pc \in {"draw", "shapes", "legend", "done"}
Drawn == pc \in {"shapes", "legend", "done"}
\* under SpecShape the model is its one layer, resolved once the loop has run
Resolved == Len(layers) = 1 /\ ~(pc = "layout" /\ index = 0)
Unclamped(raw, lo, hi) == lo <= raw /\ raw <= hi

(***************************************************************************)
(* C6 (stated as claimed; the code violates it).  Every visible layer whose *)
(* output shape has rank 3 resolves without error to                        *)
(* x = clamp(dim1 * scale_xy), y = clamp(dim2 * scale_xy), z = min_z, and a *)
(* box of minimum depth is produced for it.                                 *)
(***************************************************************************)
C6_Rank3GetsMinDepth ==
    (Resolved /\ Rank(layers[1]) = 3) =>
        /\ err = ""
        /\ xyz = <<Clamp(Scaled(ShapeOf(layers[1])[2], cfg.scale_xy), Px(cfg.min_xy),
                         Px(cfg.max_xy)),
                   Clamp(Scaled(ShapeOf(layers[1])[3], cfg.scale_xy), Px(cfg.min_xy),
                         Px(cfg.max_xy)),
                   Px(cfg.min_z)>>
        /\ Len(boxes) = 1
        /\ boxes[1].x2 - boxes[1].x1 = Px(cfg.min_z)

(***************************************************************************)
(* C7.  Rank-2 shapes (batch, d) under a valid one_dim_orientation.         *)
(***************************************************************************)
Rank2Case == Resolved /\ Rank(layers[1]) = 2 /\ cfg.one_dim_orientation \in {"x", "y", "z"}
Minima == <<Px(cfg.min_xy), Px(cfg.min_xy), Px(cfg.min_z)>>
Maxima == <<Px(cfg.max_xy), Px(cfg.max_xy), Px(cfg.max_z)>>
Selected == CASE cfg.one_dim_orientation = "x" -> 1
              [] cfg.one_dim_orientation = "y" -> 2
              [] OTHER -> 3
RawOneDim == Scaled(ShapeOf(layers[1])[2],
                    IF Selected = 3 THEN cfg.scale_z ELSE cfg.scale_xy)

\* C7 as claimed: exactly one of x, y, z differs from its minimum, and it is
\* the one one_dim_orientation selects, for every d and every scale factor.
C7_ExactlyOneDiffers ==
    Rank2Case => /\ err = ""
                 /\ {k \in 1..3 : xyz[k] # Minima[k]} = {Selected}

\* C7 amended: the two dimensions one_dim_orientation does not select stay at
\* their minimum; the selected one differs from its minimum exactly when
\* d * scale exceeds a minimum below the maximum, or the maximum is below the
\* minimum.  So at most one dimension differs, and none when d * scale <= min.
C7_OnlySelectedMayDiffer ==
    Rank2Case => /\ err = ""
                 /\ \A k \in 1..3 : k # Selected => xyz[k] = Minima[k]
                 /\ xyz[Selected] # Minima[Selected]
                      <=> \/ Maxima[Selected] < Minima[Selected]
                          \/ /\ RawOneDim > Minima[Selected]
                             /\ Maxima[Selected] > Minima[Selected]

\* a Dense-like layer drawn along y whose height left the minimum
C7_Witness ==
    /\ Rank2Case
    /\ cfg.one_dim_orientation = "y"
    /\ xyz[2] > Px(cfg.min_xy)
    /\ xyz[1] = Px(cfg.min_xy)
    /\ Len(boxes) = 1

(***************************************************************************)
(* C8.  Shapes of rank >= 4.                                                *)
(***************************************************************************)
Rank4Case == Resolved /\ Rank(layers[1]) >= 4
RawX == Scaled(ShapeOf(layers[1])[2], cfg.scale_xy)
RawY == Scaled(ShapeOf(layers[1])[3], cfg.scale_xy)
RawZAt(scale) ==
    Scaled(SelfMultiply(SubSeq(ShapeOf(layers[1]), 4, Len(ShapeOf(layers[1])))), scale)
RawZ == RawZAt(cfg.scale_z)

\* C8 as claimed: for every configuration of min_xy, max_xy, min_z, max_z
\* the resolved x and y lie in [min_xy, max_xy] and z in [min_z, max_z].
C8_WithinBoundsAlways ==
    Rank4Case => /\ err = ""
                 /\ Px(cfg.min_xy) <= xyz[1] /\ xyz[1] <= Px(cfg.max_xy)
                 /\ Px(cfg.min_xy) <= xyz[2] /\ xyz[2] <= Px(cfg.max_xy)
                 /\ Px(cfg.min_z) <= xyz[3] /\ xyz[3] <= Px(cfg.max_z)

\* C8 amended: x, y never exceed max_xy and z never exceeds max_z; they are
\* at least min_xy (min_z) in every configuration with min_xy <= max_xy
\* (min_z <= max_z); an unclamped value is the raw one (dim1, dim2 times
\* scale_xy, product of dims[3:] times scale_z), and with the raw dimension
\* fixed a larger scale factor gives a strictly larger value while neither is
\* clamped.
C8_WithinBoundsWhenOrdered ==
    Rank4Case =>
        /\ err = ""
        /\ xyz[1] <= Px(cfg.max_xy) /\ xyz[2] <= Px(cfg.max_xy) /\ xyz[3] <= Px(cfg.max_z)
        /\ cfg.min_xy <= cfg.max_xy => Px(cfg.min_xy) <= xyz[1] /\ Px(cfg.min_xy) <= xyz[2]
        /\ cfg.min_z <= cfg.max_z => Px(cfg.min_z) <= xyz[3]
        /\ Unclamped(RawX, Px(cfg.min_xy), Px(cfg.max_xy)) => xyz[1] = RawX
        /\ Unclamped(RawY, Px(cfg.min_xy), Px(cfg.max_xy)) => xyz[2] = RawY
        /\ Unclamped(RawZ, Px(cfg.min_z), Px(cfg.max_z)) => xyz[3] = RawZ
        /\ \A s \in ScaleXYs :
              LET r == Resolve(layers[1].output_shape, [cfg EXCEPT !.scale_xy = s])
                  raw == Scaled(ShapeOf(layers[1])[2], s)
              IN  (/\ s > cfg.scale_xy
                   /\ Unclamped(RawX, Px(cfg.min_xy), Px(cfg.max_xy))
                   /\ Unclamped(raw, Px(cfg.min_xy), Px(cfg.max_xy))) => r.x > xyz[1]
        /\ \A s \in ScaleZs :
              LET r == Resolve(layers[1].output_shape, [cfg EXCEPT !.scale_z = s])
              IN  (/\ s > cfg.scale_z
                   /\ Unclamped(RawZ, Px(cfg.min_z), Px(cfg.max_z))
                   /\ Unclamped(RawZAt(s), Px(cfg.min_z), Px(cfg.max_z))) => r.z > xyz[3]

\* x unclamped and able to grow with the scale, y floored, z capped
C8_Witness ==
    /\ Rank4Case
    /\ cfg.min_xy < cfg.max_xy /\ cfg.min_z < cfg.max_z
    /\ cfg.scale_xy = DefaultScaleXY
    /\ xyz[1] = RawX /\ Px(cfg.min_xy) < RawX /\ Scaled(ShapeOf(layers[1])[2], 50) <= Px(cfg.max_xy)
    /\ xyz[2] = Px(cfg.min_xy) /\ RawY < Px(cfg.min_xy)
    /\ xyz[3] = Px(cfg.max_z) /\ RawZ > Px(cfg.max_z)
    /\ Len(boxes) = 1

(***************************************************************************)
(* C1.  The layout loop.                                                    *)
(***************************************************************************)
\* the box at position k of `boxes` has the size resolved for layer p
BoxMatches(box, p) ==
    LET r == Resolve(layers[p].output_shape, cfg)
    IN  /\ box.x2 - box.x1 = r.z
        /\ box.y2 - box.y1 = r.y
        /\ box.de = IF cfg.draw_volume THEN r.x \div 3 ELSE 0
\* one box per visible layer processed, in traversal order
BoxesFollowLayers ==
    /\ Len(boxes) = Len(VisiblePositions(Processed))
    /\ \A k \in 1..Len(boxes) : BoxMatches(boxes[k], VisiblePositions(Processed)[k])
\* the layout loop completes the iteration of layer index + 1
LayerDone == pc = "layout" /\ index' = index + 1
ExcludedLeavesAll == Excluded(index + 1) => (current_z' = current_z /\ boxes' = boxes)

\* C1 as claimed: one box per visible layer in traversal order, the cursor
\* never decreases from one layer to the next, an excluded layer leaves the
\* cursor and the box list unchanged, and a spacer strictly increases the
\* cursor while emitting no box.
C1_CursorNeverDecreases ==
    /\ []BoxesFollowLayers
    /\ [][LayerDone =>
            /\ current_z' >= current_z
            /\ ExcludedLeavesAll
            /\ (~Excluded(index + 1) /\ IsSpacer(layers[index + 1]))
                  => (current_z' > current_z /\ boxes' = boxes)]_vars

\* C1 amended: one box per visible layer, in traversal order; an excluded
\* layer leaves the cursor and the box list unchanged; a spacer adds exactly
\* its spacing amount to the cursor and emits no box, so it strictly increases
\* the cursor only when that amount is positive (it leaves it in place at 0
\* and moves it back when negative); a visible layer appends one box and adds
\* z + spacing.  The cursor therefore never decreases across a layer whose
\* advance (the spacer's amount, or z + spacing) is not negative.
C1_CursorAdvancesByLayer ==
    /\ []BoxesFollowLayers
    /\ [][LayerDone =>
            /\ ExcludedLeavesAll
            /\ (~Excluded(index + 1) /\ IsSpacer(layers[index + 1]))
                  => /\ current_z' = current_z + Px(layers[index + 1].spacing)
                     /\ boxes' = boxes
                     /\ layers[index + 1].spacing > 0 <=> current_z' > current_z
                     /\ layers[index + 1].spacing >= 0 => current_z' >= current_z
            /\ Visible(index + 1)
                  => /\ Len(boxes') = Len(boxes) + 1
                     /\ SubSeq(boxes', 1, Len(boxes)) = boxes
                     /\ LET box == boxes'[Len(boxes')]
                        IN  /\ current_z' = current_z + (box.x2 - box.x1) + Px(cfg.spacing)
                            /\ (box.x2 - box.x1) + Px(cfg.spacing) >= 0
                                  => current_z' >= current_z]_vars

\* box, zero-amount spacer, box: two boxes, the cursor past both
C1_Witness ==
    /\ pc = "layout" /\ index = 3 /\ Len(layers) = 3
    /\ Visible(1) /\ Visible(3)
    /\ ~Excluded(2) /\ IsSpacer(layers[2]) /\ layers[2].spacing = 0
    /\ Len(boxes) = 2
    /\ current_z = Px(cfg.padding) + (boxes[1].x2 - boxes[1].x1)
                     + (boxes[2].x2 - boxes[2].x1) + 2 * Px(cfg.spacing)

(***************************************************************************)
(* C5.  Vertical centering after the correction pass.                       *)
(***************************************************************************)
MinOf(S) == CHOOSE m \in S : \A v \in S : m <= v
MaxOf(S) == CHOOSE m \in S : \A v \in S : m >= v
Abs(v) == IF v < 0 THEN -v ELSE v
CanvasHeight == Px(img[2])
Tops == {boxes[k].y1 - boxes[k].de : k \in 1..Len(boxes)}
Centred == LaidOut /\ Len(boxes) >= 1

\* C5 as claimed: min over boxes of (y1 - de) equals max over boxes of
\* (img_height - (y2 + de)), within rounding tolerance, for both draw_volume
\* settings.
C5_MinTopEqualsMaxBottom ==
    Centred =>
        Abs(MinOf(Tops)
            - MaxOf({CanvasHeight - (boxes[k].y2 + boxes[k].de) : k \in 1..Len(boxes)})) <= 1

\* C5 amended: every box's footprint [y1 - de, y2] is centred in the canvas,
\* y1 - de = img_height - y2, so min over boxes of (y1 - de) equals min over
\* boxes of (img_height - y2), for both draw_volume settings.
C5_FootprintCentred ==
    Centred =>
        /\ \A k \in 1..Len(boxes) :
              boxes[k].y1 - boxes[k].de = CanvasHeight - boxes[k].y2
        /\ MinOf(Tops) = MinOf({CanvasHeight - boxes[k].y2 : k \in 1..Len(boxes)})

\* two volumetric boxes of different heights, centred
C5_Witness ==
    /\ pc = "draw" /\ cfg.draw_volume
    /\ Len(boxes) = 2
    /\ boxes[1].y2 - boxes[1].y1 > boxes[2].y2 - boxes[2].y1
    /\ boxes[1].de > 0
    /\ boxes[2].y1 - boxes[2].de > boxes[1].y1 - boxes[1].de

(***************************************************************************)
(* C9.  Colour consistency per type.  Whatever color_map the caller passed, *)
(* every box carries the fill and outline recorded in color_map for its     *)
(* layer's type, so two boxes of one type have identical fill and outline,  *)
(* fixed at the type's first appearance; and the legend holds one swatch per *)
(* visible type, in first-appearance order, with exactly that fill and      *)
(* outline.                                                                 *)
(***************************************************************************)
TypeOfBox(k) == layers[VisiblePositions(Processed)[k]].type
C9_OneColourPerType ==
    /\ \A k \in 1..Len(boxes) :
          /\ boxes[k].fill = color_map[TypeOfBox(k)].fill
          /\ boxes[k].outline = color_map[TypeOfBox(k)].outline
          /\ boxes[k].fill # Absent /\ boxes[k].outline # Absent
    /\ \A k, j \in 1..Len(boxes) :
          TypeOfBox(k) = TypeOfBox(j)
             => boxes[k].fill = boxes[j].fill /\ boxes[k].outline = boxes[j].outline
    /\ (pc = "done" /\ cfg.legend) =>
          /\ Len(patches) = Len(layer_types)
          /\ \A k \in 1..Len(boxes) : \E j \in 1..Len(patches) :
                patches[j].label = TypeOfBox(k)
          /\ \A j \in 1..Len(patches), k \in 1..Len(boxes) :
                patches[j].label = TypeOfBox(k)
                   => /\ patches[j].fill = boxes[k].fill
                      /\ patches[j].outline = boxes[k].outline

\* two boxes of a type for which the caller gave only an outline, and the legend
C9_Witness ==
    /\ pc = "done" /\ cfg.legend
    /\ Len(boxes) >= 3
    /\ TypeOfBox(1) = TypeOfBox(3) /\ TypeOfBox(1) # TypeOfBox(2)
    /\ boxes[1].outline = "blue" /\ boxes[1].fill = WheelColors[1]
    /\ boxes[2].fill = "red" /\ boxes[2].outline = "black"
    /\ Len(patches) = 2

(***************************************************************************)
(* C2.  Draw-event ordering.  Every box is drawn exactly once.  Reversed:   *)
(* every back connector is drawn before any box, boxes are drawn last box   *)
(* first, and each box but the first drawn comes immediately after the two  *)
(* front connectors joining it to the box drawn just before it.  Forward:   *)
(* boxes are drawn in traversal order, each box but the first immediately   *)
(* after the four connectors joining it to the previous box.  With          *)
(* draw_funnel off no connector is drawn at all.                            *)
(***************************************************************************)
BackTags == {"back_top", "back_bottom"}
FrontTags == {"front_top", "front_bottom"}
BoxPositions(k) == {p \in 1..Len(events) : events[p].tag = "box" /\ events[p].from = k}
BoxPos(k) == CHOOSE p \in BoxPositions(k) : TRUE
LinePositions(tags) ==
    {p \in 1..Len(events) : events[p].op = "line" /\ events[p].tag \in tags}
\* the w draw calls just before position p are lines from box a to box b, tagged `tags`
LinesJustBefore(p, w, tags, a, b) ==
    /\ p > w
    /\ \A q \in (p - w)..(p - 1) :
          events[q].op = "line" /\ events[q].from = a /\ events[q].to = b
    /\ {events[q].tag : q \in (p - w)..(p - 1)} = tags

C2_DrawOrder ==
    Drawn =>
      LET n == Len(boxes) IN
      /\ \A k \in 0..(n - 1) : Cardinality(BoxPositions(k)) = 1
      /\ Cardinality({p \in 1..Len(events) : events[p].tag = "box"}) = n
      /\ ~cfg.draw_funnel => LinePositions(BackTags \cup FrontTags) = {}
      /\ cfg.draw_reversed =>
            /\ \A p \in LinePositions(BackTags), k \in 0..(n - 1) : p < BoxPos(k)
            /\ \A k \in 0..(n - 2) : BoxPos(k + 1) < BoxPos(k)
            /\ \A k \in 0..(n - 1) : events[BoxPos(k)].op = "box_reversed"
            /\ cfg.draw_funnel =>
                  /\ \A k \in 0..(n - 2) : LinesJustBefore(BoxPos(k), 2, FrontTags, k + 1, k)
                  /\ \A k \in 0..(n - 2) :
                        {events[p].tag : p \in {q \in LinePositions(BackTags) :
                                                  events[q].from = k /\ events[q].to = k + 1}}
                           = BackTags
                  /\ Len(events) = n + 4 * (IF n = 0 THEN 0 ELSE n - 1)
      /\ ~cfg.draw_reversed =>
            /\ \A k \in 0..(n - 2) : BoxPos(k) < BoxPos(k + 1)
            /\ \A k \in 0..(n - 1) : events[BoxPos(k)].op = "box"
            /\ cfg.draw_funnel =>
                  /\ \A k \in 1..(n - 1) :
                        LinesJustBefore(BoxPos(k), 4, BackTags \cup FrontTags, k - 1, k)
                  /\ Len(events) = n + 4 * (IF n = 0 THEN 0 ELSE n - 1)

\* a reversed diagram of three boxes with funnels, drawn
C2_Witness ==
    /\ pc = "done" /\ cfg.draw_reversed /\ cfg.draw_funnel
    /\ Len(boxes) = 3
    /\ Len(events) = 11
    /\ events[5].tag = "box" /\ events[5].from = 2
    /\ events[11].tag = "box" /\ events[11].from = 0

(***************************************************************************)
(* Grouped shape labels: segments.                                          *)
(***************************************************************************)
AllVisible == VisiblePositions(Len(layers))
\* boxes a..b (1-based) come from a maximal run of consecutive visible layers
SegStart(a) == a = 1 \/ AllVisible[a] # AllVisible[a - 1] + 1
SegEnd(b) == b = Len(AllVisible) \/ AllVisible[b + 1] # AllVisible[b] + 1
Segments ==
    {seg \in (1..Len(AllVisible)) \X (1..Len(AllVisible)) :
        /\ seg[1] <= seg[2]
        /\ SegStart(seg[1])
        /\ SegEnd(seg[2])
        /\ \A j \in seg[1]..(seg[2] - 1) : ~SegEnd(j)}
\* the middle box of an odd segment, the lower of the two middle boxes of an even one
Midpoint(seg) == seg[1] + (seg[2] - seg[1]) \div 2
LabelsOf(seg) == {t \in 1..Len(texts) : texts[t].box + 1 \in seg[1]..seg[2]}
LabelsDone == cfg.draw_shapes = 3 /\ pc \in {"legend", "done"} /\ Len(layers) > 0
AdjacentDelimiters == \E k \in 1..(Len(layers) - 1) : Delimiter(k) /\ Delimiter(k + 1)
EdgeDelimiter == Len(layers) > 0 /\ (Delimiter(1) \/ Delimiter(Len(layers)))

(***************************************************************************)
(* C3 (stated as claimed; the code violates it).  With draw_shapes == 3     *)
(* every segment gets exactly one label, anchored on the box at its         *)
(* midpoint (the middle box when its length is odd, the lower-indexed of    *)
(* the two middle boxes when even), the last segment included.              *)
(***************************************************************************)
C3_LabelAtSegmentMidpoint ==
    LabelsDone =>
        /\ Len(texts) = Cardinality(Segments)
        /\ \A seg \in Segments :
              /\ Cardinality(LabelsOf(seg)) = 1
              /\ \A t \in LabelsOf(seg) : texts[t].box + 1 = Midpoint(seg)

\* What the code does do: one label per segment; a segment closed by a
\* delimiter is labelled at its midpoint, the one closed by the end of the
\* sequence on its last box.
LabelAtMidpointOrLastBox ==
    LabelsDone =>
        /\ Len(texts) = Cardinality(Segments)
        /\ \A seg \in Segments :
              /\ Cardinality(LabelsOf(seg)) = 1
              /\ \A t \in LabelsOf(seg) :
                    texts[t].box + 1 = IF seg[2] = Len(boxes) THEN seg[2] ELSE Midpoint(seg)

(***************************************************************************)
(* C4.  With draw_shapes == 3 and every layer accepted by the layout loop,  *)
(* a sequence holding two delimiters (spacer, or ignored by type or index)  *)
(* with no visible layer between them never returns an image: the label     *)
(* pass never gets past the second of two adjacent delimiters, and the      *)
(* exception that ends the run is the structural RuntimeError.              *)
(***************************************************************************)
C4_AdjacentDelimitersRaise ==
    (cfg.draw_shapes = 3 /\ AdjacentDelimiters) =>
        /\ pc \notin {"legend", "done"}
        /\ patches = <<>>
        /\ pc = "error" => err = StructuralError
        /\ pc = "shapes" =>
              /\ index < Len(layers)
              /\ \A k \in 2..index : ~(Delimiter(k - 1) /\ Delimiter(k))

\* two consecutive spacers after a visible layer: raised at the second one
C4_Witness ==
    /\ pc = "error" /\ err = StructuralError
    /\ Len(layers) >= 4
    /\ Visible(1) /\ Visible(4)
    /\ IsSpacer(layers[2]) /\ IsSpacer(layers[3]) /\ ~Excluded(2) /\ ~Excluded(3)
    /\ index = 2
    /\ Len(texts) = 1

(***************************************************************************)
(* C10.  With draw_shapes == 3 and every layer accepted by the layout loop, *)
(* a sequence whose first or last layer is a delimiter never completes the  *)
(* label pass and ends with the structural RuntimeError, adjacent           *)
(* delimiters or not; a non-empty sequence that starts and ends with a      *)
(* visible layer and has no two adjacent delimiters never raises it, and    *)
(* its label pass always has a next step until it completes.                *)
(***************************************************************************)
C10_EdgeDelimiterRaises ==
    cfg.draw_shapes = 3 =>
        /\ EdgeDelimiter =>
              /\ pc \notin {"legend", "done"}
              /\ pc = "error" => err = StructuralError
              /\ pc = "shapes" => index < Len(layers)
        /\ (Len(layers) > 0 /\ ~EdgeDelimiter /\ ~AdjacentDelimiters) =>
              /\ pc # "error" /\ err = ""
              /\ pc = "shapes" => index < Len(layers)
              /\ pc \in {"legend", "done"} => Len(texts) = Cardinality(Segments)

\* a visible layer then a trailing spacer, no adjacent delimiters: raised at the end
C10_Witness ==
    /\ pc = "error" /\ err = StructuralError
    /\ Len(layers) = 3
    /\ Visible(1) /\ Visible(2) /\ Delimiter(3)
    /\ ~AdjacentDelimiters
    /\ index = 2

====
